---- MODULE Spec2Model ----
(***************************************************************************)
(* Audit + soft-delete schema augmentation (AuditSchema) of the server:    *)
(* the stored collection, the query/aggregate/save middleware registered   *)
(* on the schema, the static bulk helpers and the instance methods.        *)
(*                                                                         *)
(* A stored record is a function over Fields.  A field the stored document *)
(* does not carry and a field stored as null are the same value here       *)
(* (NullT / NullA): MongoDB's {deletedAt: null} matches both and both are   *)
(* falsy in the hooks.                                                     *)
(***************************************************************************)
EXTENDS Integers, FiniteSets, Sequences, TLC

\* ---------------------------------------------------------------- bounds
MaxTime == 2
MaxVersion == 4
MaxCap == 4
MaxEvents == 2
MaxCalls == 2

\* ---------------------------------------------------------------- values
Ids == {"r1", "r2"}
Names == {"a", "b"}
Actors == {"u1", "u2"}
NullA == "null"
NullT == 0
ANY == "any"
Times == 1..MaxTime

Fields == {"name", "createdAt", "createdBy", "updatedAt", "updatedBy",
           "deletedAt", "deletedBy", "restoredBy", "version"}

EmptyObj == [k \in {} |-> 0]

VARIABLES store, now, res, pend, docs, trip, inflight, mongo, kafka

vars == <<store, now, res, pend, docs, trip, inflight, mongo, kafka>>

Callers == {"c1", "c2"}

\* A caller holding no record object.
NoDoc == [id |-> "none", f |-> [k \in {} |-> 0], mod |-> {}, isNew |-> FALSE]

\* A delete call between its hook and the delete itself.
NoPend == [kind |-> "none", flt |-> [name |-> ANY, deletedAt |-> ANY, id |-> ANY],
           just |-> FALSE]

\* The call in progress, as its caller sees it when it returns: the
\* operation, the error it was rejected with ("none" when it was accepted),
\* its output, the option flag it was issued with (includeDeleted of a read,
\* justDelete of a delete), the filter and the other argument it was given,
\* and the collection and the record objects as they were when it was issued.
Res(op, err, out, flag, flt, arg) ==
    [op |-> op, err |-> err, out |-> out, flag |-> flag, flt |-> flt, arg |-> arg,
     store0 |-> store, docs0 |-> docs]

NoFilter == [name |-> "any", deletedAt |-> "any", id |-> "any"]

\* No call is in progress.
Idle ==
    [op |-> "idle", err |-> "none", out |-> {}, flag |-> FALSE, flt |-> NoFilter,
     arg |-> [k \in {} |-> 0], store0 |-> [k \in {} |-> 0],
     docs0 |-> [c \in Callers |-> NoDoc]]

\* Calls are awaited one at a time.
Ready == res = Idle /\ pend = NoPend

\* JavaScript truthiness of a stored timestamp: a Date object is truthy,
\* null and undefined are falsy.
Truthy(v) == v # NullT

\* The audit paths, as pre('save') lists them.
AuditFields == {"createdAt", "createdBy", "updatedAt", "updatedBy",
                "deletedAt", "deletedBy", "restoredBy", "version"}

\* ------------------------------------------------------------- filters
\* A caller filter: a condition (or none, ANY) on the non-audit field, on
\* deletedAt ("null" is {deletedAt: null}, "ne" is {deletedAt: {$ne: null}})
\* and on _id ("null" is {_id: null}).
Filters ==
    [name : {ANY} \cup Names, deletedAt : {ANY, "null", "ne"}, id : {ANY} \cup Ids]

AnyFilter == NoFilter

ById(id) == [name |-> ANY, deletedAt |-> ANY, id |-> id]

ByName(n) == [name |-> n, deletedAt |-> ANY, id |-> ANY]

\* MongoDB's match of one stored document against the conditions.
Matches(rec, id, flt) ==
    /\ flt.name = ANY \/ rec.name = flt.name
    /\ \/ flt.deletedAt = ANY
       \/ flt.deletedAt = "null" /\ rec.deletedAt = NullT
       \/ flt.deletedAt = "ne" /\ rec.deletedAt # NullT
    /\ flt.id = ANY \/ flt.id = id

Matching(st, flt) == {id \in DOMAIN st : Matches(st[id], id, flt)}

\* ----------------------------------------------------------- observer
\* The calls made so far on the record created last (id), as far as they
\* follow one of the call sequences below; "off" otherwise.  Reads and
\* returns leave the sequence where it is.
\*   c: created;  cu: then findOneAndUpdate;  cul: then reloaded;
\*   s: instance softDelete (cs, culs after c, cul);  ..r: then restore;
\*   cU: created, then an updateOne of one field matching only the record;
\*   cUD: then a default deleteMany matching it;  cUDR: then a bulkRestore
\*   matching it.
\* v0 is the object's version before the softDelete, dirty whether it then
\* carried a modified non-audit path.
NoTrip == [stage |-> "off", v0 |-> 0, dirty |-> FALSE, id |-> "none"]

Dirty(d) == \E path \in d.mod : path \notin AuditFields

Observe(t, r, d0) ==
    LET ok == r.err = "none"
        hit == t.id \in Matching(r.store0, [r.flt EXCEPT !.deletedAt = ANY])
    IN
    CASE r.op = "idle" -> t
      [] r.op \in {"find", "findOne", "countDocuments", "distinct", "virtuals"} -> t
      [] r.op = "create" /\ ok ->
            [stage |-> "c", v0 |-> 0, dirty |-> FALSE, id |-> CHOOSE i \in r.out : TRUE]
      [] r.op = "findOneAndUpdate" /\ ok /\ t.stage = "c" -> [t EXCEPT !.stage = "cu"]
      [] r.op = "findById" /\ r.out # {} /\ t.stage = "cu" -> [t EXCEPT !.stage = "cul"]
      [] r.op = "softDelete" /\ ok ->
            LET d == d0[CHOOSE c \in r.out : TRUE] IN
            [stage |-> IF t.stage = "c" /\ d.mod = {} THEN "cs"
                       ELSE IF t.stage = "cul" /\ d.mod = {} THEN "culs"
                       ELSE "s",
             v0 |-> d.f["version"],
             dirty |-> Dirty(d),
             id |-> t.id]
      [] r.op = "restore" /\ ok /\ t.stage = "cs" -> [t EXCEPT !.stage = "csr"]
      [] r.op = "restore" /\ ok /\ t.stage = "culs" -> [t EXCEPT !.stage = "culsr"]
      [] r.op = "restore" /\ ok /\ t.stage = "s" -> [t EXCEPT !.stage = "sr"]
      [] r.op = "updateOne" /\ ok /\ t.stage = "c"
            /\ Matching(r.store0, r.flt) = {t.id} /\ DOMAIN r.arg.top = {"name"} ->
            [t EXCEPT !.stage = "cU"]
      [] r.op = "deleteMany" /\ ok /\ ~r.flag /\ t.stage = "cU"
            /\ r.arg = "hook" /\ t.id \in Matching(r.store0, r.flt) ->
            [t EXCEPT !.stage = "cUD"]
      [] r.op = "deleteMany" /\ ~r.flag /\ t.stage = "cUD" /\ r.arg = "exec" -> t
      [] r.op = "bulkRestore" /\ ok /\ t.stage = "cUD" /\ hit -> [t EXCEPT !.stage = "cUDR"]
      [] OTHER -> NoTrip

\* Query.where({deletedAt: null}): merged into the conditions, replacing
\* whatever the caller's filter said about the same key.
WhereNotDeletedKeep(flt) ==
    IF flt.deletedAt = ANY THEN [flt EXCEPT !.deletedAt = "null"] ELSE flt

WhereNotDeleted(flt) == [flt EXCEPT !.deletedAt = "null"]

\* Query.where({_id: null}): no stored document has a null _id.
WhereIdNullKeep(flt) ==
    IF flt.id = ANY THEN [flt EXCEPT !.id = "null"] ELSE flt

WhereIdNull(flt) == [flt EXCEPT !.id = "null"]

\* ------------------------------------------------------- read middleware
ReadKinds == {"find", "findOne", "countDocuments", "distinct"}

\* pre('find'), pre('findOne'), pre('countDocuments'), pre('distinct'):
\* the same body, registered once per operation.
PreReadAlways(flt, includeDeleted) == WhereNotDeleted(flt)

PreReadNever(flt, includeDeleted) == flt

PreRead(flt, includeDeleted) ==
    IF ~includeDeleted THEN WhereNotDeleted(flt) ELSE flt

\* What the storage engine returns for the rewritten conditions: find the
\* matching ids, findOne one of them (or none), countDocuments their
\* number, distinct('name') the values of the field among them.
ReadOutcomes(kind, st, flt) ==
    LET m == Matching(st, flt) IN
    CASE kind = "find" -> {m}
      [] kind = "findOne" -> IF m = {} THEN {{}} ELSE {{id} : id \in m}
      [] kind = "countDocuments" -> {Cardinality(m)}
      [] kind = "distinct" -> {{st[id].name : id \in m}}

Read(kind, flt, includeDeleted) ==
    /\ Ready
    /\ \E o \in ReadOutcomes(kind, store, PreRead(flt, includeDeleted)) :
          res' = Res(kind, "none", o, includeDeleted, flt, EmptyObj)
    /\ UNCHANGED <<store, now, pend, docs>>
    /\ trip' = Observe(trip, res', docs)
    /\ UNCHANGED <<inflight, mongo, kafka>>

\* ------------------------------------------------------- aggregation
\* A pipeline is a sequence of stages: {$match: conditions} or
\* {$unset: 'deletedAt'}, which drops the field from the documents that
\* flow on to the next stage.
MatchStage(flt) == [op |-> "match", flt |-> flt]

UnsetStage == [op |-> "unset", flt |-> [name |-> ANY, deletedAt |-> ANY, id |-> ANY]]

RunStage(stage, st) ==
    IF stage.op = "match"
    THEN [id \in Matching(st, stage.flt) |-> st[id]]
    ELSE [id \in DOMAIN st |-> [st[id] EXCEPT !.deletedAt = NullT]]

RECURSIVE RunPipeline(_, _)
RunPipeline(pipeline, st) ==
    IF pipeline = <<>> THEN st
    ELSE RunPipeline(Tail(pipeline), RunStage(Head(pipeline), st))

\* pre('aggregate'): pipeline().unshift({$match: {deletedAt: null}})
PreAggregateAppend(pipeline, includeDeleted) ==
    IF ~includeDeleted
    THEN Append(pipeline, MatchStage([name |-> ANY, deletedAt |-> "null", id |-> ANY]))
    ELSE pipeline

PreAggregateAlways(pipeline, includeDeleted) ==
    <<MatchStage([name |-> ANY, deletedAt |-> "null", id |-> ANY])>> \o pipeline

PreAggregate(pipeline, includeDeleted) ==
    IF ~includeDeleted
    THEN <<MatchStage([name |-> ANY, deletedAt |-> "null", id |-> ANY])>> \o pipeline
    ELSE pipeline

\* The output is the documents the last stage emits.
Aggregate(pipeline, includeDeleted) ==
    /\ Ready
    /\ res' = Res("aggregate", "none",
                  RunPipeline(PreAggregate(pipeline, includeDeleted), store),
                  includeDeleted, NoFilter, pipeline)
    /\ UNCHANGED <<store, now, pend, docs>>
    /\ trip' = Observe(trip, res', docs)
    /\ UNCHANGED <<inflight, mongo, kafka>>

\* ------------------------------------------------------ update payloads
\* An update document as the caller writes it: top-level fields (which
\* mongoose later moves into $set), a $set object and an $inc object.
\* An absent operator and an empty one behave alike in the hook.
Put(obj, k, v) == (k :> v) @@ obj

Has(obj, k) == k \in DOMAIN obj

Upd(top, set, inc) == [top |-> top, set |-> set, inc |-> inc]

\* mongoose's cast of the update after the hooks ran: a top-level field is
\* sugar for $set of that field.
CastUpdate(u) == [set |-> u.top @@ u.set, inc |-> u.inc]

\* MongoDB rejects an update that names one path in two operators.
Conflict(cu) == DOMAIN cu.set \cap DOMAIN cu.inc # {}

ApplyUpdate(rec, cu) ==
    [k \in Fields |->
        IF k \in DOMAIN cu.set THEN cu.set[k]
        ELSE IF k \in DOMAIN cu.inc THEN rec[k] + cu.inc[k]
        ELSE rec[k]]

\* pre(['updateOne', 'updateMany', 'findOneAndUpdate'])
PreUpdateNoGuard(u, t) ==
    [err |-> "none",
     update |-> [u EXCEPT !.set = Put(@, "updatedAt", t),
                          !.inc = Put(@, "version", 1)]]

PreUpdate(u, t) ==
    IF Has(u.top, "deletedAt") /\ Truthy(u.top["deletedAt"])
    THEN [err |-> "update", update |-> u]
    ELSE [err |-> "none",
          update |-> [u EXCEPT !.set = Put(@, "updatedAt", t),
                               !.inc = Put(@, "version", 1)]]

\* The storage engine's execution of a cast update: updateMany changes every
\* matching document, updateOne and findOneAndUpdate one of them (no sort is
\* given, so which one is the engine's choice).
RunUpdate(kind, flt, cu, st) ==
    LET m == Matching(st, flt) IN
    IF kind = "updateMany"
    THEN {[id \in DOMAIN st |-> IF id \in m THEN ApplyUpdate(st[id], cu) ELSE st[id]]}
    ELSE IF m = {} THEN {st}
    ELSE {[st EXCEPT ![id] = ApplyUpdate(st[id], cu)] : id \in m}

\* Model.updateOne / updateMany / findOneAndUpdate: the hook, then the cast,
\* then the engine.  The results are the possible (error, store) pairs.
UpdateResults(kind, flt, u, st, t) ==
    LET h == PreUpdate(u, t)
        cu == CastUpdate(h.update)
    IN  IF h.err # "none" THEN {[err |-> h.err, st |-> st]}
        ELSE IF Conflict(cu) THEN {[err |-> "conflict", st |-> st]}
        ELSE {[err |-> "none", st |-> s2] : s2 \in RunUpdate(kind, flt, cu, st)}

UpdateKinds == {"updateOne", "updateMany", "findOneAndUpdate"}

VersionRoom == \A id \in DOMAIN store : store[id].version < MaxVersion

UpdateOp(kind, flt, u) ==
    /\ Ready
    /\ VersionRoom
    /\ \E r \in UpdateResults(kind, flt, u, store, now) :
          /\ store' = r.st
          /\ res' = Res(kind, r.err, {}, FALSE, flt, u)
    /\ UNCHANGED <<now, pend, docs>>
    /\ trip' = Observe(trip, res', docs)
    /\ UNCHANGED <<inflight, mongo, kafka>>

\* ---------------------------------------------------------- replaceOne
\* pre('replaceOne'): getUpdate() is the replacement document.
PreReplaceNoGuard(rep, t) ==
    [err |-> "none",
     rep |-> Put(Put(rep, "updatedAt", t), "version",
                 (IF Has(rep, "version") THEN rep["version"] ELSE 0) + 1)]

PreReplace(rep, t) ==
    IF Has(rep, "deletedAt") /\ Truthy(rep["deletedAt"])
    THEN [err |-> "replace", rep |-> rep]
    ELSE [err |-> "none",
          rep |-> Put(Put(rep, "updatedAt", t), "version",
                      (IF Has(rep, "version") THEN rep["version"] ELSE 0) + 1)]

\* The stored document becomes the replacement: a field the replacement
\* does not carry is gone from storage.
Absent(k) ==
    CASE k \in {"createdAt", "updatedAt", "deletedAt"} -> NullT
      [] k = "version" -> 0
      [] OTHER -> NullA

Replaced(rep) == [k \in Fields |-> IF Has(rep, k) THEN rep[k] ELSE Absent(k)]

\* Whether the replacement is stored as given or first filled with the
\* schema defaults (createdAt: Date.now; updatedAt and version are already
\* set by the hook) is decided by the mongoose release in use.
ReplaceOutcomes(rep, t) ==
    {Replaced(rep),
     Replaced(IF Has(rep, "createdAt") THEN rep ELSE Put(rep, "createdAt", t))}

ReplaceOp(flt, rep) ==
    /\ Ready
    /\ VersionRoom
    /\ LET h == PreReplace(rep, now)
           m == Matching(store, flt)
       IN  IF h.err # "none"
           THEN /\ store' = store
                /\ res' = Res("replaceOne", h.err, {}, FALSE, flt, rep)
           ELSE /\ IF m = {} THEN store' = store
                   ELSE \E id \in m, r2 \in ReplaceOutcomes(h.rep, now) :
                           store' = [store EXCEPT ![id] = r2]
                /\ res' = Res("replaceOne", "none", {}, FALSE, flt, rep)
    /\ UNCHANGED <<now, pend, docs>>
    /\ trip' = Observe(trip, res', docs)
    /\ UNCHANGED <<inflight, mongo, kafka>>

\* ------------------------------------------------------- static helpers
\* AuditSchema.statics.softDelete and bulkSoftDelete (the same body):
\* updateMany({...filter, deletedAt: null}, {$set, $inc}) through the
\* update middleware.
SoftDeleteUpdate(actor, t) ==
    Upd(EmptyObj,
        ("deletedAt" :> t) @@ ("updatedAt" :> t) @@ ("deletedBy" :> actor),
        ("version" :> 1))

BulkSoftDeleteFilterKeep(flt) == flt

BulkSoftDeleteFilter(flt) == [flt EXCEPT !.deletedAt = "null"]

BulkSoftDelete(opname, flt, actor) ==
    /\ Ready
    /\ VersionRoom
    /\ \E r \in UpdateResults("updateMany", BulkSoftDeleteFilter(flt),
                              SoftDeleteUpdate(actor, now), store, now) :
          /\ store' = r.st
          /\ res' = Res(opname, r.err, {}, FALSE, flt, actor)
    /\ UNCHANGED <<now, pend, docs>>
    /\ trip' = Observe(trip, res', docs)
    /\ UNCHANGED <<inflight, mongo, kafka>>

\* AuditSchema.statics.bulkRestore
RestoreUpdate(actor, t) ==
    Upd(EmptyObj,
        ("deletedAt" :> NullT) @@ ("deletedBy" :> NullA)
            @@ ("restoredBy" :> actor) @@ ("updatedAt" :> t),
        ("version" :> 1))

BulkRestoreFilterKeep(flt) == flt

BulkRestoreFilter(flt) == [flt EXCEPT !.deletedAt = "ne"]

BulkRestore(flt, actor) ==
    /\ Ready
    /\ VersionRoom
    /\ \E r \in UpdateResults("updateMany", BulkRestoreFilter(flt),
                              RestoreUpdate(actor, now), store, now) :
          /\ store' = r.st
          /\ res' = Res("bulkRestore", r.err, {}, FALSE, flt, actor)
    /\ UNCHANGED <<now, pend, docs>>
    /\ trip' = Observe(trip, res', docs)
    /\ UNCHANGED <<inflight, mongo, kafka>>

\* ------------------------------------------- bulk calls, not awaited
\* Two bulkSoftDelete (or static softDelete) calls may be in flight at once.
\* A call in flight: the conditions and the cast update it was sent with,
\* its actor and time, the documents the engine has still to visit, those it
\* has updated, and the collection as it was when the call was issued.
Calls == {"k1", "k2"}

NoCall ==
    [stage |-> "none", flt |-> NoFilter, cu |-> CastUpdate(Upd(EmptyObj, EmptyObj, EmptyObj)),
     actor |-> NullA, t |-> NullT, left |-> {}, hit |-> {}, store0 |-> EmptyObj]

Quiet == \A k \in Calls : inflight[k].stage = "none"

\* The call is made: the filter is extended, the update hook runs, and the
\* command is sent.
BulkSoftDeleteIssue(k, flt, actor) ==
    /\ Ready
    /\ VersionRoom
    /\ inflight[k].stage = "none"
    /\ LET h == PreUpdate(SoftDeleteUpdate(actor, now), now) IN
          /\ h.err = "none"
          /\ inflight' = [inflight EXCEPT ![k] =
                [stage |-> "sent", flt |-> BulkSoftDeleteFilter(flt),
                 cu |-> CastUpdate(h.update), actor |-> actor, t |-> now,
                 left |-> DOMAIN store, hit |-> {}, store0 |-> store]]
    /\ UNCHANGED <<store, now, res, pend, docs, trip, mongo, kafka>>

\* The engine visits one document for the call: the match against the
\* conditions and the write are one atomic step per document, and steps of
\* different calls interleave.
BulkSoftDeleteStep(k) ==
    /\ inflight[k].stage = "sent"
    /\ \E id \in inflight[k].left :
          LET m == Matches(store[id], id, inflight[k].flt) IN
          /\ store' = IF m THEN [store EXCEPT ![id] = ApplyUpdate(@, inflight[k].cu)]
                       ELSE store
          /\ inflight' = [inflight EXCEPT ![k].left = @ \ {id},
                                          ![k].hit = IF m THEN @ \cup {id} ELSE @]
    /\ UNCHANGED <<now, res, pend, docs, trip, mongo, kafka>>

Finished(k) == inflight[k].stage = "sent" /\ inflight[k].left = {}

\* The call's promise resolves.
BulkSoftDeleteReturn(k) ==
    /\ Finished(k)
    /\ inflight' = [inflight EXCEPT ![k] = NoCall]
    /\ UNCHANGED <<store, now, res, pend, docs, trip, mongo, kafka>>

\* ------------------------------------------------------ delete family
DeleteKinds == {"deleteOne", "deleteMany", "findOneAndDelete"}

\* The update both delete hooks send before the delete itself runs.
DeleteStamp(t) ==
    Upd(EmptyObj, ("deletedAt" :> t) @@ ("updatedAt" :> t), ("version" :> 1))

\* pre('findOneAndDelete') awaits updateOne(getQuery(), stamp);
\* pre(['deleteOne', 'deleteMany']) awaits updateMany(getQuery(), stamp).
HookUpdateKindOne(kind) == "updateOne"

HookUpdateKind(kind) ==
    IF kind = "findOneAndDelete" THEN "updateOne" ELSE "updateMany"

\* The conditions the delete itself runs with once the hook has returned:
\* pre('findOneAndDelete') always adds {_id: null}, the deleteOne/deleteMany
\* hook adds it unless the justDelete option is set.
NeutralizedNever(kind, flt, justDelete) == flt

Neutralized(kind, flt, justDelete) ==
    IF kind = "findOneAndDelete" \/ ~justDelete THEN WhereIdNull(flt) ELSE flt

\* First half of a delete call: the hook up to its next().
DeleteHook(kind, flt, justDelete) ==
    /\ Ready
    /\ VersionRoom
    /\ \E r \in UpdateResults(HookUpdateKind(kind), flt, DeleteStamp(now), store, now) :
          /\ store' = r.st
          /\ res' = Res(kind, r.err, {}, justDelete, flt, "hook")
    /\ pend' = [kind |-> kind, flt |-> Neutralized(kind, flt, justDelete),
                just |-> justDelete]
    /\ UNCHANGED <<now, docs>>
    /\ trip' = Observe(trip, res', docs)
    /\ UNCHANGED <<inflight, mongo, kafka>>

\* Second half: the storage engine runs the delete with the conditions the
\* hook left: deleteMany removes every match, the other two one match.
Removed(kind, flt, st) ==
    LET m == Matching(st, flt) IN
    IF kind = "deleteMany" THEN {[id \in DOMAIN st \ m |-> st[id]]}
    ELSE IF m = {} THEN {st}
    ELSE {[id \in DOMAIN st \ {x} |-> st[id]] : x \in m}

DeleteExec ==
    /\ pend # NoPend
    /\ res = Idle
    /\ \E s2 \in Removed(pend.kind, pend.flt, store) :
          /\ store' = s2
          /\ res' = Res(pend.kind, "none", DOMAIN store \ DOMAIN s2, pend.just, pend.flt, "exec")
    /\ pend' = NoPend
    /\ UNCHANGED <<now, docs>>
    /\ trip' = Observe(trip, res', docs)
    /\ UNCHANGED <<inflight, mongo, kafka>>

\* ------------------------------------------------------ record objects
\* An in-memory document: the id it was loaded or created with, its field
\* values, the paths mongoose tracks as modified and the isNew flag.
\* Schema defaults of a document under construction.
Default(k, t) ==
    CASE k \in {"createdAt", "updatedAt"} -> t
      [] k = "deletedAt" -> NullT
      [] k = "version" -> 0
      [] OTHER -> NullA

NewDoc(id, obj, t) ==
    [id |-> id,
     f |-> [k \in Fields |-> IF Has(obj, k) THEN obj[k] ELSE Default(k, t)],
     mod |-> DOMAIN obj,
     isNew |-> TRUE]

\* doc.path = value: the path is marked modified when the value changes.
Assign(d, k, v) ==
    IF d.f[k] = v THEN d ELSE [d EXCEPT !.f[k] = v, !.mod = @ \cup {k}]

\* pre('save'): err is "save" when the hook throws, else doc is the document
\* as the hook leaves it.
BumpAlways(d, modifiedPaths) == Assign(d, "version", d.f["version"] + 1)

BumpIfNonAudit(d, modifiedPaths) ==
    IF d.mod # {} /\ (\E path \in modifiedPaths : path \notin AuditFields)
    THEN Assign(d, "version", d.f["version"] + 1)
    ELSE d

PreSaveNoGuard(d, t) ==
    LET d1 == IF d.isNew THEN Assign(d, "createdAt", t) ELSE d
        d2 == Assign(d1, "updatedAt", t)
    IN  [err |-> "none", doc |-> BumpIfNonAudit(d2, d.mod)]

PreSave(d, t) ==
    LET modifiedPaths == d.mod
        d1 == IF d.isNew THEN Assign(d, "createdAt", t) ELSE d
        d2 == Assign(d1, "updatedAt", t)
    IN  IF Truthy(d.f["deletedAt"]) /\ "deletedAt" \notin modifiedPaths
        THEN [err |-> "save", doc |-> d]
        ELSE [err |-> "none", doc |-> BumpIfNonAudit(d2, modifiedPaths)]

\* Document.save(): the hook, then an insert of a new document or a $set of
\* the modified paths of an existing one (which fails when the stored
\* document is gone).  Result: error, document and store afterwards.
SaveResult(d, st, t) ==
    LET h == PreSave(d, t)
        e == h.doc
    IN  IF h.err # "none" THEN [err |-> h.err, doc |-> d, st |-> st]
        ELSE IF e.isNew
             THEN [err |-> "none",
                   doc |-> [e EXCEPT !.mod = {}, !.isNew = FALSE],
                   st |-> (e.id :> e.f) @@ st]
        ELSE IF e.mod = {} THEN [err |-> "none", doc |-> e, st |-> st]
        ELSE IF e.id \notin DOMAIN st
             THEN [err |-> "notFound", doc |-> e, st |-> st]
        ELSE [err |-> "none",
              doc |-> [e EXCEPT !.mod = {}],
              st |-> [st EXCEPT ![e.id] =
                         [k \in Fields |-> IF k \in e.mod THEN e.f[k] ELSE @[k]]]]

\* Model.create(obj): a new document, saved.  The caller keeps the returned
\* object or drops it.
HeldIds == {docs[c].id : c \in Callers}

Create(c, obj, keep) ==
    /\ Ready
    /\ \E id \in Ids \ (DOMAIN store \cup HeldIds) :
          LET r == SaveResult(NewDoc(id, obj, now), store, now) IN
          /\ store' = r.st
          /\ res' = Res("create", r.err, {id}, FALSE, NoFilter, obj)
          /\ docs' = IF keep /\ r.err = "none" THEN [docs EXCEPT ![c] = r.doc] ELSE docs
    /\ UNCHANGED <<now, pend>>
    /\ trip' = Observe(trip, res', docs)
    /\ UNCHANGED <<inflight, mongo, kafka>>

\* findById(id), with or without includeDeleted: the caller keeps what the
\* query returned (null when nothing matched).
Load(c, id, includeDeleted) ==
    /\ Ready
    /\ LET flt == PreRead([name |-> ANY, deletedAt |-> ANY, id |-> id], includeDeleted)
           m == Matching(store, flt)
       IN  /\ docs' = [docs EXCEPT ![c] =
                        IF m = {} THEN NoDoc
                        ELSE [id |-> id, f |-> store[id], mod |-> {}, isNew |-> FALSE]]
           /\ res' = Res("findById", "none", m, includeDeleted, ById(id), c)
    /\ UNCHANGED <<store, now, pend>>
    /\ trip' = Observe(trip, res', docs)
    /\ UNCHANGED <<inflight, mongo, kafka>>

\* doc.path = value by the caller.
SetField(c, k, v) ==
    /\ Ready
    /\ docs[c] # NoDoc
    /\ docs[c].f[k] # v
    /\ docs' = [docs EXCEPT ![c] = Assign(@, k, v)]
    /\ res' = Res("set", "none", {}, FALSE, NoFilter, c)
    /\ UNCHANGED <<store, now, pend>>
    /\ trip' = Observe(trip, res', docs)
    /\ UNCHANGED <<inflight, mongo, kafka>>

DocVersionRoom(c) == docs[c].f["version"] < MaxVersion

Save(c) ==
    /\ Ready
    /\ docs[c] # NoDoc
    /\ DocVersionRoom(c)
    /\ LET r == SaveResult(docs[c], store, now) IN
          /\ store' = r.st
          /\ docs' = [docs EXCEPT ![c] = r.doc]
          /\ res' = Res("save", r.err, {}, FALSE, NoFilter, c)
    /\ UNCHANGED <<now, pend>>
    /\ trip' = Observe(trip, res', docs)
    /\ UNCHANGED <<inflight, mongo, kafka>>

\* AuditSchema.methods.softDelete
SoftDeleteBodyNoGuard(d, deletedBy, t) ==
    [err |-> "none",
     doc |-> Assign(Assign(Assign(d, "deletedAt", t), "deletedBy", deletedBy),
                    "updatedAt", t)]

SoftDeleteBodyNoActor(d, deletedBy, t) ==
    IF Truthy(d.f["deletedAt"]) THEN [err |-> "delete", doc |-> d]
    ELSE [err |-> "none",
          doc |-> Assign(Assign(Assign(d, "deletedAt", t), "deletedBy", NullA),
                         "updatedAt", t)]

SoftDeleteBody(d, deletedBy, t) ==
    IF Truthy(d.f["deletedAt"]) THEN [err |-> "delete", doc |-> d]
    ELSE [err |-> "none",
          doc |-> Assign(Assign(Assign(d, "deletedAt", t), "deletedBy", deletedBy),
                         "updatedAt", t)]

SoftDelete(c, deletedBy) ==
    /\ Ready
    /\ docs[c] # NoDoc
    /\ DocVersionRoom(c)
    /\ LET b == SoftDeleteBody(docs[c], deletedBy, now)
           r == SaveResult(b.doc, store, now)
       IN  IF b.err # "none"
           THEN /\ res' = Res("softDelete", b.err, {c}, FALSE, NoFilter, deletedBy)
                /\ UNCHANGED <<store, docs>>
           ELSE /\ store' = r.st
                /\ docs' = [docs EXCEPT ![c] = r.doc]
                /\ res' = Res("softDelete", r.err, {c}, FALSE, NoFilter, deletedBy)
    /\ UNCHANGED <<now, pend>>
    /\ trip' = Observe(trip, res', docs)
    /\ UNCHANGED <<inflight, mongo, kafka>>

\* AuditSchema.methods.restore
RestoreBodyNoGuard(d, restoredBy, t) ==
    LET d1 == IF restoredBy # NullA THEN Assign(d, "restoredBy", restoredBy) ELSE d
        d2 == Assign(Assign(d1, "deletedAt", NullT), "deletedBy", NullA)
        d3 == Assign(Assign(d2, "updatedBy", restoredBy), "updatedAt", t)
    IN  [err |-> "none", doc |-> Assign(d3, "version", d3.f["version"] + 1)]

RestoreBody(d, restoredBy, t) ==
    LET d1 == IF restoredBy # NullA THEN Assign(d, "restoredBy", restoredBy) ELSE d
        d2 == Assign(Assign(d1, "deletedAt", NullT), "deletedBy", NullA)
        d3 == Assign(Assign(d2, "updatedBy", restoredBy), "updatedAt", t)
    IN  IF ~Truthy(d.f["deletedAt"]) THEN [err |-> "restore", doc |-> d]
        ELSE [err |-> "none", doc |-> Assign(d3, "version", d3.f["version"] + 1)]

Restore(c, restoredBy) ==
    /\ Ready
    /\ docs[c] # NoDoc
    /\ DocVersionRoom(c)
    /\ LET b == RestoreBody(docs[c], restoredBy, now)
           r == SaveResult(b.doc, store, now)
       IN  IF b.err # "none"
           THEN /\ res' = Res("restore", b.err, {c}, FALSE, NoFilter, restoredBy)
                /\ UNCHANGED <<store, docs>>
           ELSE /\ store' = r.st
                /\ docs' = [docs EXCEPT ![c] = r.doc]
                /\ res' = Res("restore", r.err, {c}, FALSE, NoFilter, restoredBy)
    /\ UNCHANGED <<now, pend>>
    /\ trip' = Observe(trip, res', docs)
    /\ UNCHANGED <<inflight, mongo, kafka>>

\* ----------------------------------------------------------- virtuals
\* AuditSchema.virtual('isDeleted')
IsDeletedByActor(d) == d.f["deletedBy"] # NullA

IsDeleted(d) == Truthy(d.f["deletedAt"])

\* AuditSchema.virtual('auditInfo')
AuditInfo(d) ==
    [createdAt |-> d.f["createdAt"],
     createdBy |-> d.f["createdBy"],
     updatedAt |-> d.f["updatedAt"],
     updatedBy |-> d.f["updatedBy"],
     deletedAt |-> d.f["deletedAt"],
     deletedBy |-> d.f["deletedBy"],
     version |-> d.f["version"],
     isDeleted |-> Truthy(d.f["deletedAt"])]

\* The caller reads doc.isDeleted and doc.auditInfo.
Virtuals(c) ==
    /\ Ready
    /\ docs[c] # NoDoc
    /\ res' = Res("virtuals", "none",
                  [isDeleted |-> IsDeleted(docs[c]), auditInfo |-> AuditInfo(docs[c])],
                  FALSE, NoFilter, c)
    /\ UNCHANGED <<store, now, pend, docs>>
    /\ trip' = Observe(trip, res', docs)
    /\ UNCHANGED <<inflight, mongo, kafka>>

\* ------------------------------------------------- connectToMongoDb
\* The module state of the connector: retryCount and firstConnection, the
\* configured MONGO_DB.RETRY_CAP (cap, 0 until the call reads it), where the
\* initial connectToMongoDb
\* call stands (pc), where a reconnect started by the 'disconnected' handler
\* stands (re), and three counts kept for the record: the attempts the
\* initial call has made, those that failed, and the 'disconnected' events
\* delivered.
MongoInit ==
    [pc |-> "idle", re |-> "none", cap |-> 0, retryCount |-> 0,
     firstConnection |-> TRUE, attempts |-> 0, failed |-> 0, events |-> 0]

\* connectWithRetry, try branch, the 'connected' handler, and the statement
\* after the await in connectToMongoDb.
ConnectSucceeded(m) ==
    [m EXCEPT !.retryCount = 0, !.firstConnection = FALSE, !.pc = "resolved"]

\* connectWithRetry, catch branch.
ConnectFailed(m) ==
    LET retryCount == m.retryCount + 1 IN
    [m EXCEPT !.retryCount = retryCount,
              !.failed = @ + 1,
              !.pc = IF retryCount >= m.cap THEN "exited" ELSE "waiting"]

\* connection.on('disconnected')
OnDisconnectedNoGuard(m) ==
    LET retryCount == m.retryCount + 1 IN
    IF retryCount >= m.cap
    THEN [m EXCEPT !.retryCount = retryCount, !.pc = "exited"]
    ELSE [m EXCEPT !.retryCount = retryCount, !.re = "waiting"]

OnDisconnected(m) ==
    LET retryCount == m.retryCount + 1 IN
    IF m.firstConnection THEN m
    ELSE IF retryCount >= m.cap
         THEN [m EXCEPT !.retryCount = retryCount, !.pc = "exited"]
         ELSE [m EXCEPT !.retryCount = retryCount, !.re = "waiting"]

MongoRunning == mongo.pc \notin {"idle", "exited"}

MongoQuiet == UNCHANGED <<store, now, res, pend, docs, trip, inflight, kafka>>

\* connectToMongoDb is called: the handlers are registered and the first
\* attempt starts.
MongoStart ==
    /\ mongo.pc = "idle"
    /\ \E cap \in 1..MaxCap :
          mongo' = [mongo EXCEPT !.pc = "connecting", !.attempts = 1, !.cap = cap]
    /\ MongoQuiet

\* mongoose.connect of the initial call resolves or rejects.
MongoConnectOk ==
    /\ mongo.pc = "connecting"
    /\ mongo' = ConnectSucceeded(mongo)
    /\ MongoQuiet

MongoConnectFail ==
    /\ mongo.pc = "connecting"
    /\ mongo' = ConnectFailed(mongo)
    /\ MongoQuiet

\* The CONNECTION_TIMER of the catch branch fires: connectWithRetry again.
MongoTimer ==
    /\ mongo.pc = "waiting"
    /\ mongo' = [mongo EXCEPT !.pc = "connecting", !.attempts = @ + 1]
    /\ MongoQuiet

\* The driver emits 'disconnected'.
MongoDisconnected ==
    /\ MongoRunning
    /\ mongo.events < MaxEvents
    /\ mongo' = [OnDisconnected(mongo) EXCEPT !.events = @ + 1]
    /\ MongoQuiet

\* The handler's timer fires and its mongoose.connect resolves ('connected'
\* is emitted) or rejects (the error is logged).
MongoReconnectTimer ==
    /\ MongoRunning
    /\ mongo.re = "waiting"
    /\ mongo' = [mongo EXCEPT !.re = "connecting"]
    /\ MongoQuiet

MongoReconnectOk ==
    /\ MongoRunning
    /\ mongo.re = "connecting"
    /\ mongo' = [mongo EXCEPT !.re = "none", !.retryCount = 0]
    /\ MongoQuiet

MongoReconnectFail ==
    /\ MongoRunning
    /\ mongo.re = "connecting"
    /\ mongo' = [mongo EXCEPT !.re = "none"]
    /\ MongoQuiet

\* --------------------------------------------------- connectToKafka
\* The module state of the connector: retryCount, firstConnection, the
\* producer and the consumer (0 while undefined, else the number of the
\* client object), and KAFKA.RETRY_CAP (cap, 0 until a call reads it); the
\* client objects that carry a disconnect handler; where the call in
\* progress stands (pc) and where a reconnect started by a handler stands
\* (re, for reClient).  Kept for the record: the client objects made, the
\* calls made, the disconnect events delivered, and the last of them: the
\* client and object that emitted it, whether firstConnection still held,
\* and whether it led to a reconnect attempt or to the exit at the cap.
NoEvent == [client |-> "none", obj |-> 0, first |-> TRUE, handled |-> FALSE]

KafkaInit ==
    [pc |-> "idle", re |-> "none", reClient |-> "none", cap |-> 0, retryCount |-> 0,
     firstConnection |-> TRUE, producer |-> 0, consumer |-> 0,
     onProducer |-> {}, onConsumer |-> {},
     made |-> 0, calls |-> 0, events |-> 0, last |-> NoEvent]

\* producer?.on('producer.disconnect', ...) and consumer?.on(...): the
\* handler goes to the object the variable holds, if it holds one.
AttachHandlers(k) ==
    [k EXCEPT !.onProducer = IF k.producer # 0 THEN @ \cup {k.producer} ELSE @,
              !.onConsumer = IF k.consumer # 0 THEN @ \cup {k.consumer} ELSE @]

\* connectWithRetry, try branch up to the awaits: a new Kafka instance, a
\* new producer and a new consumer.
NewClients(k) ==
    [k EXCEPT !.made = @ + 1, !.producer = k.made + 1, !.consumer = k.made + 1,
              !.pc = "connecting"]

\* connectWithRetry once both connects have resolved, and the statement
\* after the await in connectToKafka.
KafkaSucceeded(k) ==
    [k EXCEPT !.retryCount = 0, !.firstConnection = FALSE, !.pc = "resolved"]

\* connectWithRetry, catch branch.
KafkaFailed(k) ==
    LET retryCount == k.retryCount + 1 IN
    [k EXCEPT !.retryCount = retryCount,
              !.pc = IF retryCount >= k.cap THEN "exited" ELSE "waiting"]

\* A client object emits its disconnect event: the handler runs if the
\* object carries one.
OnClientDisconnect(k, client, obj) ==
    LET attached == obj \in (IF client = "producer" THEN k.onProducer ELSE k.onConsumer)
        acts == attached /\ ~k.firstConnection
        retryCount == k.retryCount + 1
        ev == [client |-> client, obj |-> obj, first |-> k.firstConnection,
               handled |-> acts]
    IN  IF ~acts THEN [k EXCEPT !.last = ev]
        ELSE IF retryCount >= k.cap
             THEN [k EXCEPT !.last = ev, !.retryCount = retryCount, !.pc = "exited"]
             ELSE [k EXCEPT !.last = ev, !.retryCount = retryCount,
                            !.re = "waiting", !.reClient = client]

KafkaRunning == kafka.pc \notin {"idle", "exited"}

KafkaQuiet == UNCHANGED <<store, now, res, pend, docs, trip, inflight, mongo>>

\* connectToKafka is called, for the first time or again: the handlers are
\* registered, then connectWithRetry makes its clients and starts to connect.
KafkaCall ==
    /\ kafka.pc \in {"idle", "resolved"}
    /\ kafka.calls < MaxCalls
    /\ \E cap \in 1..MaxCap :
          /\ kafka.cap \in {0, cap}
          /\ kafka' = [NewClients(AttachHandlers(kafka)) EXCEPT !.calls = @ + 1, !.cap = cap]
    /\ KafkaQuiet

\* producer.connect() and consumer.connect() resolve, or one of them rejects.
KafkaConnectOk ==
    /\ kafka.pc = "connecting"
    /\ kafka' = KafkaSucceeded(kafka)
    /\ KafkaQuiet

KafkaConnectFail ==
    /\ kafka.pc = "connecting"
    /\ kafka' = KafkaFailed(kafka)
    /\ KafkaQuiet

\* The CONNECTION_TIMER of the catch branch fires: connectWithRetry again.
KafkaTimer ==
    /\ kafka.pc = "waiting"
    /\ kafka' = NewClients(kafka)
    /\ KafkaQuiet

\* A producer or consumer object made so far emits its disconnect event.
KafkaDisconnect ==
    /\ KafkaRunning
    /\ kafka.events < MaxEvents
    /\ \E client \in {"producer", "consumer"}, obj \in 1..kafka.made :
          kafka' = [OnClientDisconnect(kafka, client, obj) EXCEPT !.events = @ + 1]
    /\ KafkaQuiet

\* The handler's timer fires and its connect() resolves (retryCount = 0) or
\* rejects (the error is logged).
KafkaReconnectTimer ==
    /\ KafkaRunning
    /\ kafka.re = "waiting"
    /\ kafka' = [kafka EXCEPT !.re = "connecting"]
    /\ KafkaQuiet

KafkaReconnectOk ==
    /\ KafkaRunning
    /\ kafka.re = "connecting"
    /\ kafka' = [kafka EXCEPT !.re = "none", !.reClient = "none", !.retryCount = 0]
    /\ KafkaQuiet

KafkaReconnectFail ==
    /\ KafkaRunning
    /\ kafka.re = "connecting"
    /\ kafka' = [kafka EXCEPT !.re = "none", !.reClient = "none"]
    /\ KafkaQuiet

\* ------------------------------------------------------------- clock
Tick ==
    /\ Ready
    /\ now < MaxTime
    /\ now' = now + 1
    /\ UNCHANGED <<store, res, pend, docs>>
    /\ UNCHANGED trip
    /\ UNCHANGED <<inflight, mongo, kafka>>

\* The call in progress returns to its caller.
Return ==
    /\ res # Idle
    /\ res' = Idle
    /\ UNCHANGED <<store, now, pend, docs>>
    /\ UNCHANGED trip
    /\ UNCHANGED <<inflight, mongo, kafka>>

Init ==
    /\ store = EmptyObj
    /\ now = 1
    /\ res = Idle
    /\ pend = NoPend
    /\ docs = [c \in Callers |-> NoDoc]
    /\ trip = NoTrip
    /\ inflight = [k \in Calls |-> NoCall]
    /\ mongo = MongoInit
    /\ kafka = KafkaInit

\* ----------------------------------------------------------- inputs
\* Filters without an _id condition, and the two _id lookups.
FieldFilters == {f \in Filters : f.id = ANY}

Stages == {MatchStage(f) : f \in FieldFilters} \cup {UnsetStage}

Pipelines == {<<>>} \cup {<<s1>> : s1 \in Stages} \cup {<<s1, s2>> : s1, s2 \in Stages}

Creations == {("name" :> n) : n \in Names}

Payloads ==
    {Upd(("name" :> n), EmptyObj, EmptyObj) : n \in Names}
    \cup {Upd(("deletedAt" :> d), EmptyObj, EmptyObj) : d \in {NullT, now}}
    \cup {Upd(EmptyObj, ("deletedAt" :> d), EmptyObj) : d \in {NullT, now}}

Replacements ==
    {("name" :> n) : n \in Names}
    \cup {("name" :> "a") @@ ("deletedAt" :> d) : d \in {NullT, now}}

ActorArgs == {NullA} \cup Actors

\* ------------------------------------------------- read specification
\* The collection is populated by create, the static soft delete and the
\* bulk restore; every read is issued with every filter, with and without
\* includeDeleted.
NextRead ==
    \/ Return
    \/ \E obj \in Creations : Create("c1", obj, FALSE)
    \/ \E n \in Names, a \in {NullA, "u1"} : BulkSoftDelete("staticSoftDelete", ByName(n), a)
    \/ \E n \in Names : BulkRestore(ByName(n), "u2")
    \/ \E k \in ReadKinds, f \in Filters, inc \in BOOLEAN : Read(k, f, inc)
    \/ \E p \in Pipelines, inc \in BOOLEAN : Aggregate(p, inc)

SpecRead == Init /\ [][NextRead]_vars

\* ----------------------------------------------- delete specification
NextDelete ==
    \/ Return
    \/ Tick
    \/ \E obj \in Creations : Create("c1", obj, FALSE)
    \/ \E k \in DeleteKinds, f \in Filters, j \in BOOLEAN : DeleteHook(k, f, j)
    \/ DeleteExec
    \/ BulkRestore(ById("r1"), NullA)

SpecDelete == Init /\ [][NextDelete]_vars

\* ----------------------------------------------- update specification
NextUpdate ==
    \/ Return
    \/ \E obj \in Creations : Create("c1", obj, FALSE)
    \/ \E id \in Ids : BulkSoftDelete("bulkSoftDelete", ById(id), "u1")
    \/ \E k \in UpdateKinds, f \in FieldFilters \cup {ById("r1")}, u \in Payloads :
          UpdateOp(k, f, u)
    \/ \E f \in FieldFilters \cup {ById("r1")}, rep \in Replacements : ReplaceOp(f, rep)

SpecUpdate == Init /\ [][NextUpdate]_vars

\* --------------------------------------------- instance specification
\* One caller, one record: the caller creates it, loads it, edits the
\* object, saves, soft-deletes and restores; the stored record also changes
\* behind the object's back through findOneAndUpdate and the bulk helpers.
NextDoc ==
    \/ Return
    \/ Tick
    \/ \E obj \in Creations : DOMAIN store = {} /\ Create("c1", obj, TRUE)
    \/ \E id \in Ids, inc \in BOOLEAN : Load("c1", id, inc)
    \/ \E n \in Names : SetField("c1", "name", n)
    \/ Save("c1")
    \/ \E a \in {NullA, "u1"} : SoftDelete("c1", a)
    \/ \E a \in {NullA, "u2"} : Restore("c1", a)
    \/ UpdateOp("findOneAndUpdate", AnyFilter, Upd(("name" :> "b"), EmptyObj, EmptyObj))
    \/ BulkSoftDelete("bulkSoftDelete", AnyFilter, NullA)
    \/ BulkRestore(AnyFilter, NullA)

SpecDoc == Init /\ [][NextDoc]_vars


\* ------------------------------------------------- save specification
\* What a caller may hand to create: ordinary fields, an audit path only,
\* or audit paths of its own choosing (a version, a deletedAt).
CreationsAny ==
    Creations
    \cup {("updatedBy" :> "u1")}
    \cup {("name" :> "a") @@ ("version" :> 2)}
    \cup {("name" :> "a") @@ ("deletedAt" :> now)}

\* Record objects are created, loaded, assigned to (deletedAt included) and
\* saved; the stored record also changes behind the object's back.
NextSave ==
    \/ Return
    \/ \E obj \in CreationsAny : DOMAIN store = {} /\ Create("c1", obj, TRUE)
    \/ \E id \in Ids, inc \in BOOLEAN : Load("c1", id, inc)
    \/ \E n \in Names : SetField("c1", "name", n)
    \/ \E d \in {NullT, now} : SetField("c1", "deletedAt", d)
    \/ Save("c1")
    \/ SoftDelete("c1", "u1")
    \/ Restore("c1", "u2")
    \/ BulkSoftDelete("bulkSoftDelete", AnyFilter, NullA)

SpecSave == Init /\ [][NextSave]_vars


\* -------------------------------------------- lifecycle specification
\* Records are created, updated by updateOne, deleted by a default
\* deleteMany and brought back by bulkRestore, under filters on _id and on
\* name; find is issued with and without includeDeleted.
LifeFilters == {AnyFilter} \cup {ById(id) : id \in Ids} \cup {ByName(n) : n \in Names}

NextLife ==
    \/ Return
    \/ \E obj \in Creations : Create("c1", obj, FALSE)
    \/ \E f \in LifeFilters, n \in Names :
          UpdateOp("updateOne", f, Upd(("name" :> n), EmptyObj, EmptyObj))
    \/ \E f \in LifeFilters : DeleteHook("deleteMany", f, FALSE)
    \/ DeleteExec
    \/ \E f \in LifeFilters, a \in {NullA, "u2"} : BulkRestore(f, a)
    \/ \E id \in Ids, inc \in BOOLEAN : Read("find", ById(id), inc)

SpecLife == Init /\ [][NextLife]_vars


\* ------------------------------------------------- bulk specification
\* The static helpers under every filter, one on deletedAt or on _id
\* included, with and without an actor, as time passes.
BulkFilters == {f \in Filters : f.id # "r2"}

NextBulk ==
    \/ Return
    \/ Tick
    \/ \E obj \in Creations : Create("c1", obj, FALSE)
    \/ \E f \in BulkFilters, a \in {NullA, "u1"} : BulkSoftDelete("bulkSoftDelete", f, a)
    \/ \E n \in Names : BulkSoftDelete("staticSoftDelete", ByName(n), "u1")
    \/ \E f \in BulkFilters, a \in {NullA, "u2"} : BulkRestore(f, a)

SpecBulk == Init /\ [][NextBulk]_vars


\* ---------------------------------------------- payload specification
\* Update payloads that change one field or several, and payloads that name
\* the audit paths the hook injects: updatedAt and version, at top level,
\* in $set and in $inc.
PayloadsAny ==
    {Upd(("name" :> n), EmptyObj, EmptyObj) : n \in Names}
    \cup {Upd(("name" :> "b") @@ ("updatedBy" :> "u2"), EmptyObj, EmptyObj),
          Upd(EmptyObj, ("name" :> "b"), EmptyObj),
          Upd(EmptyObj, ("updatedAt" :> 1), EmptyObj),
          Upd(EmptyObj, EmptyObj, ("version" :> 2)),
          Upd(("updatedAt" :> 1), EmptyObj, EmptyObj),
          Upd(("version" :> 0), EmptyObj, EmptyObj)}

NextPayload ==
    \/ Return
    \/ Tick
    \/ \E obj \in Creations : Create("c1", obj, FALSE)
    \/ \E k \in UpdateKinds, f \in {AnyFilter, ById("r1")}, u \in PayloadsAny :
          UpdateOp(k, f, u)

SpecPayload == Init /\ [][NextPayload]_vars


\* --------------------------------------------- createdAt specification
\* One record, as time passes: saved with caller-assigned fields (createdAt
\* included), updated, replaced, deleted and restored.
NextCreated ==
    \/ Return
    \/ Tick
    \/ DOMAIN store = {} /\ Create("c1", ("name" :> "a"), TRUE)
    \/ \E t \in Times : SetField("c1", "createdAt", t)
    \/ Save("c1")
    \/ SoftDelete("c1", "u1")
    \/ Restore("c1", "u2")
    \/ UpdateOp("updateOne", AnyFilter, Upd(EmptyObj, ("createdAt" :> now), EmptyObj))
    \/ ReplaceOp(AnyFilter, ("name" :> "b"))
    \/ DeleteHook("deleteOne", AnyFilter, FALSE)
    \/ DeleteExec
    \/ BulkRestore(AnyFilter, NullA)

SpecCreated == Init /\ [][NextCreated]_vars


\* ------------------------------------------- two-caller specification
\* Two callers, one record: the first creates it and keeps the object, either
\* loads it again, and each soft-deletes or restores through the object it
\* holds, whatever the other has done to the stored record meanwhile.
NextShared ==
    \/ Return
    \/ Tick
    \/ DOMAIN store = {} /\ Create("c1", ("name" :> "a"), TRUE)
    \/ \E c \in Callers, id \in Ids, inc \in BOOLEAN : Load(c, id, inc)
    \/ \E c \in Callers : SoftDelete(c, IF c = "c1" THEN "u1" ELSE "u2")
    \/ \E c \in Callers : Restore(c, NullA)

SpecShared == Init /\ [][NextShared]_vars

\* ---------------------------------------------- virtuals specification
\* One record object through its life (created, loaded, assigned to, saved,
\* soft-deleted with and without an actor, restored), its virtuals read at
\* any point.
NextVirtual ==
    \/ Return
    \/ Tick
    \/ DOMAIN store = {} /\ Create("c1", ("name" :> "a"), TRUE)
    \/ \E id \in Ids, inc \in BOOLEAN : Load("c1", id, inc)
    \/ \E d \in {NullT, now} : SetField("c1", "deletedAt", d)
    \/ SetField("c1", "name", "b")
    \/ Save("c1")
    \/ \E a \in {NullA, "u1"} : SoftDelete("c1", a)
    \/ Restore("c1", NullA)
    \/ Virtuals("c1")

SpecVirtual == Init /\ [][NextVirtual]_vars

\* -------------------------------------------------- edit specification
\* One record object, as time passes: the caller assigns a non-audit field
\* (name), an audit field (updatedBy) or both and saves; the object is also
\* soft-deleted, restored and reloaded, and the stored record updated behind
\* its back.
NextEdit ==
    \/ Return
    \/ Tick
    \/ DOMAIN store = {} /\ Create("c1", ("name" :> "a"), TRUE)
    \/ \E inc \in BOOLEAN : Load("c1", "r1", inc) \/ Load("c1", "r2", inc)
    \/ \E n \in Names : SetField("c1", "name", n)
    \/ \E a \in ActorArgs : SetField("c1", "updatedBy", a)
    \/ Save("c1")
    \/ SoftDelete("c1", "u1")
    \/ Restore("c1", "u2")
    \/ UpdateOp("findOneAndUpdate", AnyFilter, Upd(("name" :> "b"), EmptyObj, EmptyObj))

SpecEdit == Init /\ [][NextEdit]_vars

\* -------------------------------------------------- race specification
\* Records are created and restored while no bulk call is in flight; two
\* bulk soft deletes with overlapping filters and different actors are then
\* issued and run one document at a time, in any interleaving, as time
\* passes.
RaceFilters == {AnyFilter, ById("r1")}

NextRace ==
    \/ Return
    \/ Tick
    \/ Quiet /\ Create("c1", ("name" :> "a"), FALSE)
    \/ Quiet /\ BulkRestore(AnyFilter, NullA)
    \/ \E f \in RaceFilters : BulkSoftDeleteIssue("k1", f, "u1")
    \/ \E f \in RaceFilters : BulkSoftDeleteIssue("k2", f, "u2")
    \/ \E k \in Calls : BulkSoftDeleteStep(k)
    \/ \E k \in Calls : BulkSoftDeleteReturn(k)

SpecRace == Init /\ [][NextRace]_vars

\* ------------------------------------------- connector specification
\* connectToMongoDb is called once; each attempt succeeds or fails, and the
\* driver emits 'disconnected' at any moment, before and after the first
\* successful connection.
NextMongo ==
    \/ MongoStart
    \/ MongoConnectOk
    \/ MongoConnectFail
    \/ MongoTimer
    \/ MongoDisconnected
    \/ MongoReconnectTimer
    \/ MongoReconnectOk
    \/ MongoReconnectFail

SpecMongo == Init /\ [][NextMongo]_vars

\* The call is made, every mongoose.connect settles and every timer fires.
FairMongo ==
    /\ SpecMongo
    /\ WF_vars(MongoStart)
    /\ WF_vars(MongoConnectOk \/ MongoConnectFail)
    /\ WF_vars(MongoTimer)

\* ------------------------------------------------ broker specification
\* connectToKafka is called, once or twice; each attempt succeeds or fails,
\* and any client object made so far emits its disconnect event at any
\* moment.
NextKafka ==
    \/ KafkaCall
    \/ KafkaConnectOk
    \/ KafkaConnectFail
    \/ KafkaTimer
    \/ KafkaDisconnect
    \/ KafkaReconnectTimer
    \/ KafkaReconnectOk
    \/ KafkaReconnectFail

SpecKafka == Init /\ [][NextKafka]_vars

\* ===================================================== claims: reads
LiveIds(st) == {id \in DOMAIN st : st[id].deletedAt = NullT}

DeletedIds(st) == {id \in DOMAIN st : st[id].deletedAt # NullT}

\* The caller's conditions other than the one on deletedAt.
OtherConds(flt) == [flt EXCEPT !.deletedAt = ANY]

OnlyLive(kind, flt, out) ==
    CASE kind \in {"find", "findOne"} -> out \subseteq LiveIds(store)
      [] kind = "countDocuments" ->
            out <= Cardinality(LiveIds(store) \cap Matching(store, OtherConds(flt)))
      [] kind = "distinct" ->
            out \subseteq {store[id].name : id \in LiveIds(store)}

\* C1: a default read (find, findOne/findById, countDocuments, distinct)
\* issued without includeDeleted never returns or counts a record whose
\* deletedAt is non-null, whatever the caller's filter says, a filter
\* asking for deletedAt != null included.
C1_DefaultReadHidesDeleted ==
    (res.op \in ReadKinds /\ ~res.flag) => OnlyLive(res.op, res.flt, res.out)

\* A default find whose filter asks for the deleted records, issued while a
\* record matching the rest of the filter is deleted.
C1_Witness ==
    /\ res.op = "find" /\ ~res.flag /\ res.flt.deletedAt = "ne"
    /\ DeletedIds(store) \cap Matching(store, res.flt) # {}
    /\ LiveIds(store) # {}

\* C2: a read issued with includeDeleted = true returns or counts exactly
\* the records the caller's own filter selects from the whole collection,
\* deleted or not; an aggregate runs the caller's pipeline unchanged.
WholeCollection(kind, flt, out) ==
    LET all == {id \in DOMAIN store : Matches(store[id], id, flt)} IN
    CASE kind = "find" -> out = all
      [] kind = "findOne" ->
            out \subseteq all /\ Cardinality(out) <= 1 /\ (out = {} <=> all = {})
      [] kind = "countDocuments" -> out = Cardinality(all)
      [] kind = "distinct" -> out = {store[id].name : id \in all}

C2_IncludeDeletedReadsAll ==
    /\ (res.op \in ReadKinds /\ res.flag) => WholeCollection(res.op, res.flt, res.out)
    /\ (res.op = "aggregate" /\ res.flag) => res.out = RunPipeline(res.arg, store)

C2_Witness ==
    /\ res.op = "countDocuments" /\ res.flag /\ res.flt = AnyFilter
    /\ DeletedIds(store) # {} /\ LiveIds(store) # {}
    /\ res.out = Cardinality(DOMAIN store)

\* =================================================== claims: deletes
\* The hook half and the delete half of a delete call that was issued
\* without the justDelete override.
HookDone == res.op \in DeleteKinds /\ res.arg = "hook" /\ ~res.flag

ExecDone == res.op \in DeleteKinds /\ res.arg = "exec" /\ ~res.flag

\* The records that matched the caller's filter and were live when the call
\* was issued.
MatchedLive0 == Matching(res.store0, res.flt) \cap LiveIds(res.store0)

StoredDeleted(id) ==
    /\ id \in DOMAIN store
    /\ store[id].deletedAt # NullT
    /\ id \in Matching(store, PreRead(ById(id), TRUE))

\* C3 as stated: no record is removed, and each live record that matched the
\* filter is afterwards stored with deletedAt set and readable with
\* includeDeleted, for deleteOne, deleteMany and findOneAndDelete alike.
C3_Original ==
    /\ HookDone => /\ DOMAIN store = DOMAIN res.store0
                   /\ \A id \in MatchedLive0 : StoredDeleted(id)
    /\ ExecDone => store = res.store0

\* C3 (amended): a delete issued without the override never removes a
\* record, whatever the filter (one on _id included).  deleteOne and
\* deleteMany leave each live record that matched stored with deletedAt set
\* and readable with includeDeleted; findOneAndDelete stamps exactly one of
\* the records that matched (live or not) and leaves the others as they were.
C3_DeleteKeepsRecords ==
    /\ HookDone =>
         /\ DOMAIN store = DOMAIN res.store0
         /\ res.op # "findOneAndDelete" => \A id \in MatchedLive0 : StoredDeleted(id)
         /\ (res.op = "findOneAndDelete" /\ Matching(res.store0, res.flt) # {}) =>
               \E id \in Matching(res.store0, res.flt) :
                  /\ StoredDeleted(id)
                  /\ store[id].deletedAt = now
                  /\ \A o \in DOMAIN store \ {id} : store[o] = res.store0[o]
    /\ ExecDone => /\ store = res.store0
                   /\ res.out = {}

\* A whole default deleteMany has run and both records are still stored,
\* deleted.
C3_Witness ==
    /\ ExecDone /\ res.op = "deleteMany"
    /\ DOMAIN store = Ids /\ DeletedIds(store) = Ids

\* =================================================== claims: updates
\* The payload names deletedAt where the storage engine applies it: as a
\* top-level field or inside $set.
NamesDeletedAt(u) == Has(u.top, "deletedAt") \/ Has(u.set, "deletedAt")

CarriesDeletedAtStamp(u) ==
    \/ Has(u.top, "deletedAt") /\ u.top["deletedAt"] \in Times
    \/ Has(u.set, "deletedAt") /\ u.set["deletedAt"] \in Times

\* C4: an updateOne, updateMany or findOneAndUpdate whose payload carries a
\* deletedAt timestamp, top-level or inside $set, is rejected with
\* ForbiddenFieldMutation (the "update" error) and modifies no record.
C4_StampedUpdateRejected ==
    (res.op \in UpdateKinds /\ CarriesDeletedAtStamp(res.arg)
        /\ LiveIds(res.store0) \cap Matching(res.store0, res.flt) # {}) =>
        (res.err = "update" /\ store = res.store0)

\* C5: a generic update or replace whose payload sets deletedAt to any
\* value, null included, fails before reaching storage; a soft-deleted
\* record is not made live by a payload that clears deletedAt.  (Stated
\* on calls whose filter matches a soft-deleted record.)
C5_AnyDeletedAtRejected ==
    LET hit == DeletedIds(res.store0) \cap Matching(res.store0, res.flt) # {} IN
    /\ (res.op \in UpdateKinds /\ NamesDeletedAt(res.arg) /\ hit) =>
          (res.err # "none" /\ store = res.store0)
    /\ (res.op = "replaceOne" /\ Has(res.arg, "deletedAt") /\ hit) =>
          (res.err # "none" /\ store = res.store0)

\* C6: a replaceOne whose replacement document carries a deletedAt
\* timestamp is rejected and the stored records are left unchanged.
C6_StampedReplaceRejected ==
    (res.op = "replaceOne" /\ Has(res.arg, "deletedAt") /\ res.arg["deletedAt"] \in Times)
        => (res.err = "replace" /\ store = res.store0)

\* Such a replaceOne was issued with a filter that matches a stored record.
C6_Witness ==
    /\ res.op = "replaceOne" /\ Has(res.arg, "deletedAt") /\ res.arg["deletedAt"] \in Times
    /\ Matching(store, res.flt) # {}
    /\ res.err = "replace"

\* ========================================== claims: record objects
\* The caller's record object now and when the call in progress was issued.
Obj == docs["c1"]

Obj0 == res.docs0["c1"]

Called(op) == res.op = op /\ res.err = "none"

\* C7: instance softDelete on a record object already marked deleted fails
\* with AlreadyDeleted (the "delete" error) and changes no field of the
\* record, version and deletedBy included, in memory or in storage.
C7_SecondSoftDeleteRejected ==
    (res.op = "softDelete" /\ Truthy(Obj0.f["deletedAt"])) =>
        (res.err = "delete" /\ docs = res.docs0 /\ store = res.store0)

\* softDelete(u1) was refused on an object deleted by somebody else, whose
\* record is stored deleted.
C7_Witness ==
    /\ res.op = "softDelete" /\ res.err = "delete" /\ res.arg = "u1"
    /\ Obj.f["deletedBy"] # "u1"
    /\ Obj.id \in DeletedIds(store)

\* C8: instance restore on a live record object (deletedAt null) fails with
\* NotDeleted (the "restore" error) and leaves every field unchanged, in
\* memory and in storage.
C8_RestoreOfLiveRejected ==
    (res.op = "restore" /\ ~Truthy(Obj0.f["deletedAt"])) =>
        (res.err = "restore" /\ docs = res.docs0 /\ store = res.store0)

\* restore(u2) was refused on a live object whose record is stored live.
C8_Witness ==
    /\ res.op = "restore" /\ res.err = "restore" /\ res.arg = "u2"
    /\ Obj.id \in LiveIds(store)
    /\ Obj.f["restoredBy"] # "u2"

\* An instance softDelete immediately followed by an instance restore, both
\* accepted, has just completed.
RoundTrip == trip.stage \in {"csr", "culsr", "sr"} /\ Called("restore")

Cleared ==
    /\ Obj.f["deletedAt"] = NullT
    /\ Obj.f["deletedBy"] = NullA
    /\ res.arg # NullA => Obj.f["restoredBy"] = res.arg

\* C9 as stated: after softDelete(actorA) then restore(actorB) on a live
\* record, deletedAt and deletedBy are null, restoredBy is actorB and
\* version is exactly 2 greater than before the softDelete.
C9_Original == RoundTrip => (Cleared /\ Obj.f["version"] = trip.v0 + 2)

\* C9 (amended): after softDelete(actorA) then restore(actorB) on a live
\* record, deletedAt and deletedBy are null, restoredBy is actorB when an
\* actor was given (unchanged otherwise), and version is greater than
\* before the softDelete by exactly 1 when the object carried no unsaved
\* non-audit change at the softDelete, by exactly 2 when it did; the stored
\* record agrees.
C9_RoundTrip ==
    RoundTrip =>
        /\ Cleared
        /\ res.arg = NullA => Obj.f["restoredBy"] = Obj0.f["restoredBy"]
        /\ Obj.f["version"] = trip.v0 + (IF trip.dirty THEN 2 ELSE 1)
        /\ store[Obj.id].deletedAt = NullT
        /\ store[Obj.id].version = Obj.f["version"]

\* A round trip on an object without unsaved changes, restored by u2.
C9_Witness ==
    /\ RoundTrip /\ ~trip.dirty /\ res.arg = "u2"
    /\ Obj.f["version"] = trip.v0 + 1

\* C10: on an object with no pending in-memory changes, instance softDelete
\* leaves version unchanged and the following restore increments it by
\* exactly 1; create, softDelete, restore ends at version 2, and create,
\* findOneAndUpdate, softDelete, restore ends at version 3.
C10_CleanSoftDeleteKeepsVersion ==
    /\ (Called("softDelete") /\ Obj0.mod = {}) =>
          /\ Obj.f["version"] = Obj0.f["version"]
          /\ store[Obj.id].version = res.store0[Obj.id].version
    /\ (RoundTrip /\ ~trip.dirty) => Obj.f["version"] = Obj0.f["version"] + 1
    /\ (trip.stage = "csr" /\ Called("restore")) =>
          (Obj.f["version"] = 2 /\ store[Obj.id].version = 2)
    /\ (trip.stage = "culsr" /\ Called("restore")) =>
          (Obj.f["version"] = 3 /\ store[Obj.id].version = 3)

\* create, findOneAndUpdate, softDelete, restore has just completed.
C10_Witness == trip.stage = "culsr" /\ Called("restore") /\ Obj.f["version"] = 3

\* ================================================== claims: creation
\* C11: immediately after a record's creation (its first persist) its
\* version is 1 and its deletedAt is null, whatever fields the caller
\* supplied at creation.  (Stated for creations that carry a name, as the
\* test schema requires.)
C11_CreatedAtVersionOne ==
    (Called("create") /\ Has(res.arg, "name")) =>
        \A id \in res.out : store[id].version = 1 /\ store[id].deletedAt = NullT

\* ================================================= claims: lifecycle
\* The record the observed call sequence is about.
R == trip.id

FoundBy(includeDeleted) ==
    (res.op = "find" /\ res.flag = includeDeleted /\ res.flt = ById(R)) => R \in res.out

\* C12: create R (version 1, live); an updateOne changing one field gives
\* version 2 with R still live; a default deleteMany matching R gives
\* version 3 with R not returned by a default find but returned with
\* includeDeleted; a bulkRestore matching R gives version 4 with R returned
\* by a default find again.
C12_Lifecycle ==
    /\ (trip.stage = "c" /\ Called("create")) =>
          (R \in LiveIds(store) /\ store[R].version = 1)
    /\ trip.stage = "cU" => (R \in LiveIds(store) /\ store[R].version = 2)
    /\ trip.stage = "cUD" =>
          /\ R \in DeletedIds(store) /\ store[R].version = 3
          /\ (res.op = "find" /\ ~res.flag) => R \notin res.out
          /\ FoundBy(TRUE)
    /\ trip.stage = "cUDR" =>
          /\ R \in LiveIds(store) /\ store[R].version = 4
          /\ FoundBy(FALSE)

\* The whole scenario has run and a default find has returned R.
C12_Witness ==
    /\ trip.stage = "cUDR" /\ res.op = "find" /\ ~res.flag /\ R \in res.out
    /\ store[R].version = 4

\* ===================================================== claims: bulk
\* The records that matched the caller's filter when the call was issued,
\* live and deleted.
Matched0 == Matching(res.store0, res.flt)

\* C13: bulkSoftDelete(filter, actor) (and the static softDelete, which has
\* the same body) marks every live record matching the filter as deleted:
\* deletedAt set, deletedBy the actor or null, version + 1; it leaves every
\* already-deleted record matching the filter untouched, also when the
\* filter itself carries a deletedAt condition.
C13_BulkSoftDelete ==
    (res.op \in {"staticSoftDelete", "bulkSoftDelete"} /\ res.err = "none") =>
        \A id \in Matched0 :
            IF id \in LiveIds(res.store0)
            THEN /\ store[id].deletedAt = now
                 /\ store[id].deletedBy = res.arg
                 /\ store[id].version = res.store0[id].version + 1
            ELSE store[id] = res.store0[id]

\* bulkSoftDelete(u1) under a filter asking for deleted records, matching a
\* record deleted earlier without an actor, which keeps its deletedAt and
\* its deletedBy.
C13_Witness ==
    /\ res.op = "bulkSoftDelete" /\ res.err = "none" /\ res.arg = "u1"
    /\ res.flt.deletedAt = "ne"
    /\ \E id \in Matched0 : store[id].deletedBy = NullA /\ store[id].deletedAt < now

\* C14: bulkRestore(filter, actor) clears deletedAt and deletedBy, sets
\* restoredBy (to the actor, or null without one), refreshes updatedAt and
\* increments version by exactly 1 on every record that matches the filter
\* and is deleted, and leaves every live record matching the filter
\* unchanged.
C14_BulkRestore ==
    Called("bulkRestore") =>
        \A id \in Matched0 :
            IF id \in DeletedIds(res.store0)
            THEN /\ store[id].deletedAt = NullT
                 /\ store[id].deletedBy = NullA
                 /\ store[id].restoredBy = res.arg
                 /\ store[id].updatedAt = now
                 /\ store[id].version = res.store0[id].version + 1
            ELSE store[id] = res.store0[id]

\* bulkRestore(u2) under a filter matching a deleted and a live record,
\* issued later than the deletion.
C14_Witness ==
    /\ Called("bulkRestore") /\ res.arg = "u2"
    /\ Matched0 \cap DeletedIds(res.store0) # {}
    /\ Matched0 \cap LiveIds(res.store0) # {}
    /\ \E id \in Matched0 : res.store0[id].updatedAt < now /\ store[id].updatedAt = now

\* ================================================== claims: version
\* The operations that write to the collection.
Mutators ==
    UpdateKinds \cup DeleteKinds
    \cup {"create", "save", "replaceOne", "softDelete", "restore",
          "staticSoftDelete", "bulkSoftDelete", "bulkRestore"}

\* The records stored before and after the call in progress.
Kept == DOMAIN store \cap DOMAIN res.store0

Touched == {id \in Kept : store[id] # res.store0[id]}

\* C15: across accepted operations (save, the update family, replaceOne,
\* the delete translation, softDelete, restore, the bulk variants) the
\* stored version of a record never decreases.
C15_VersionNeverDecreases ==
    (res.op \in Mutators /\ res.err = "none") =>
        \A id \in Kept : store[id].version >= res.store0[id].version

C17_UpdateBumpsOnce ==
    (res.op \in UpdateKinds /\ res.err = "none") =>
        \A id \in Touched :
            /\ store[id].version = res.store0[id].version + 1
            /\ store[id].updatedAt = now

\* ====================================================== claims: save
\* C18: saving a record object that is marked deleted, with changes to
\* fields other than deletedAt and not through restore, is rejected and
\* nothing is written: the stored records and the object stay as they were.
C18_SaveOfDeletedRejected ==
    (res.op = "save" /\ Truthy(Obj0.f["deletedAt"]) /\ "deletedAt" \notin Obj0.mod) =>
        (res.err = "save" /\ store = res.store0 /\ docs = res.docs0)

\* A deleted record was loaded, its name was changed and the save refused.
C18_Witness ==
    /\ res.op = "save" /\ res.err = "save"
    /\ "name" \in Obj.mod
    /\ Obj.id \in DeletedIds(store)
    /\ store[Obj.id].name # Obj.f["name"]

\* C19: a save in which the caller assigned deletedAt directly on the
\* object is rejected with ForbiddenFieldMutation; a live record is not
\* turned into a deleted one by assigning deletedAt and saving.
C19_AssignedDeletedAtRejected ==
    (res.op = "save" /\ "deletedAt" \in Obj0.mod /\ Truthy(Obj0.f["deletedAt"])
        /\ Obj0.id \in LiveIds(res.store0)) =>
        (res.err # "none" /\ store = res.store0)

\* ================================================= claims: updatedAt
\* C20: every accepted mutating operation (save, updateOne, updateMany,
\* findOneAndUpdate, replaceOne, the delete translation, instance
\* softDelete and restore, bulkSoftDelete and bulkRestore) leaves the
\* updatedAt of each record it changes at the current time.
C20_UpdatedAtRefreshed ==
    (res.op \in Mutators /\ res.err = "none") =>
        \A id \in Touched : store[id].updatedAt = now

\* ================================================= claims: createdAt
\* C21: createdAt is set once, at the record's first persist; no later
\* accepted operation (save with caller-assigned fields, update payload,
\* replaceOne, delete, restore) changes or removes it.
C21_CreatedAtSetOnce ==
    (res.op \in Mutators \ {"create"} /\ res.err = "none") =>
        \A id \in Kept : store[id].createdAt = res.store0[id].createdAt

\* ======================================== claims: updates of deleted
\* C22: an updateOne, updateMany, findOneAndUpdate or replaceOne issued
\* without includeDeleted applies the soft-delete filter: it never modifies
\* a record whose deletedAt is non-null.  (Stated for payloads that do not
\* name deletedAt themselves.)
PlainPayload ==
    IF res.op = "replaceOne" THEN ~Has(res.arg, "deletedAt") ELSE ~NamesDeletedAt(res.arg)

C22_UpdateSkipsDeleted ==
    (res.op \in UpdateKinds \cup {"replaceOne"} /\ res.err = "none" /\ ~res.flag
        /\ PlainPayload) =>
        \A id \in DeletedIds(res.store0) : store[id] = res.store0[id]

\* ================================================ claims: two callers
\* The record the call in progress was made on, as it was stored when the
\* call was issued.
Caller == CHOOSE c \in res.out : TRUE

\* C23: when two callers each hold their own in-memory snapshot of a live
\* record and both call instance softDelete, the second call is not applied:
\* an accepted softDelete always finds the stored record live, so it never
\* overwrites a deletedAt/deletedBy another caller has written.
C23_NoDoubleSoftDelete ==
    (res.op = "softDelete" /\ res.err = "none"
        /\ res.docs0[Caller].id \in DOMAIN res.store0) =>
        ~Truthy(res.store0[res.docs0[Caller].id].deletedAt)

\* ============================================ claims: delete translation
\* C24: the default delete translation (deleteOne, deleteMany,
\* findOneAndDelete without the override) modifies only live records: a
\* record that matches the caller's filter but is already deleted keeps its
\* deletedAt, deletedBy and version.
C24_DeleteSkipsDeleted ==
    HookDone =>
        \A id \in Matching(res.store0, res.flt) \cap DeletedIds(res.store0) :
            /\ store[id].deletedAt = res.store0[id].deletedAt
            /\ store[id].deletedBy = res.store0[id].deletedBy
            /\ store[id].version = res.store0[id].version

\* C25: a deleteOne or deleteMany issued with the override (justDelete)
\* bypasses the translation entirely: when its hook hands over to the delete
\* itself no record has been stamped (the collection is as it was when the
\* call was issued), and the delete then removes the records it matches and
\* changes no other.
C25_JustDeleteBypasses ==
    /\ (res.op \in {"deleteOne", "deleteMany"} /\ res.flag /\ res.arg = "hook") =>
          store = res.store0
    /\ (res.op \in {"deleteOne", "deleteMany"} /\ res.flag /\ res.arg = "exec") =>
          /\ res.out \subseteq Matching(res.store0, res.flt)
          /\ \A id \in DOMAIN store : store[id] = res.store0[id]

\* ================================================== claims: aggregate
\* The live records of a collection, as a collection.
LiveOnly(st) == [id \in LiveIds(st) |-> st[id]]

\* C26: a default aggregate(pipeline) returns what the caller's stages, in
\* their original order, return on the live records alone (the pipeline
\* [match deletedAt == null] followed by the caller's stages, run on the
\* whole collection); with includeDeleted the caller's pipeline runs
\* unchanged on the whole collection.
C26_AggregateMatchFirst ==
    res.op = "aggregate" =>
        res.out = IF res.flag
                  THEN RunPipeline(res.arg, res.store0)
                  ELSE RunPipeline(res.arg, LiveOnly(res.store0))

\* A default aggregate whose first stage unsets deletedAt and whose second
\* matches {deletedAt: null} ran on a collection holding a live and a
\* deleted record, and returned the live one only.
C26_Witness ==
    /\ res.op = "aggregate" /\ ~res.flag
    /\ res.arg = <<UnsetStage, MatchStage([name |-> ANY, deletedAt |-> "null", id |-> ANY])>>
    /\ LiveIds(res.store0) # {} /\ DeletedIds(res.store0) # {}
    /\ DOMAIN res.out = LiveIds(res.store0)

\* ============================================ claims: restore, in detail
\* C27: an accepted instance restore(actor?) sets deletedAt = null and
\* deletedBy = null, sets restoredBy = actor when an actor is given and
\* leaves restoredBy as it was when none is given, and leaves every field
\* other than deletedAt, deletedBy, restoredBy, updatedAt and version as it
\* was on the record object.
C27_RestoreFrame ==
    Called("restore") =>
        /\ Obj.f["deletedAt"] = NullT
        /\ Obj.f["deletedBy"] = NullA
        /\ Obj.f["restoredBy"] = IF res.arg # NullA THEN res.arg ELSE Obj0.f["restoredBy"]
        /\ \A k \in Fields \ {"deletedAt", "deletedBy", "restoredBy", "updatedAt", "version"} :
               Obj.f[k] = Obj0.f[k]

\* =================================================== claims: virtuals
\* C28: whenever the virtuals of a record object are read, isDeleted is true
\* exactly when the object's deletedAt is non-null, and auditInfo.isDeleted,
\* auditInfo.deletedAt, auditInfo.deletedBy and auditInfo.version are the
\* object's field values at the time of the access.
C28_VirtualsTrackFields ==
    res.op = "virtuals" =>
        LET d == res.docs0[res.arg] IN
        /\ res.out.isDeleted = (d.f["deletedAt"] # NullT)
        /\ res.out.auditInfo.isDeleted = (d.f["deletedAt"] # NullT)
        /\ res.out.auditInfo.deletedAt = d.f["deletedAt"]
        /\ res.out.auditInfo.deletedBy = d.f["deletedBy"]
        /\ res.out.auditInfo.version = d.f["version"]

\* The virtuals were read on an object soft-deleted without an actor after
\* an earlier restore: isDeleted is true, deletedBy null, version above 1.
C28_Witness ==
    /\ res.op = "virtuals"
    /\ res.out.isDeleted /\ res.out.auditInfo.isDeleted
    /\ res.out.auditInfo.deletedBy = NullA
    /\ res.out.auditInfo.version > 1
    /\ Obj.f["deletedAt"] # NullT

\* ========================================= claims: one bump per call
\* C29: a single accepted call raises the version of a record by at most
\* 1, on the record object it was made on and in storage; in particular an
\* instance restore or softDelete on an object that also carries pending
\* changes of non-audit fields raises it once, not twice.
C29_OneBumpPerCall ==
    /\ (res.op \in Mutators /\ res.err = "none") =>
          \A id \in Kept : store[id].version <= res.store0[id].version + 1
    /\ (res.op \in {"save", "softDelete", "restore"} /\ res.err = "none") =>
          Obj.f["version"] <= Obj0.f["version"] + 1

\* ============================================ claims: record life cycle
\* C30: a record that is deleted stays deleted until an instance restore or
\* a bulkRestore is applied to it: no accepted save, update, replaceOne or
\* delete call (nor any other call) leaves a record live that was stored
\* deleted when the call was issued.
C30_DeletedUntilRestore ==
    (res.op \in Mutators \ {"restore", "bulkRestore"} /\ res.err = "none") =>
        \A id \in Kept \cap DeletedIds(res.store0) : store[id].deletedAt # NullT

\* ================================================ claims: restoredBy
\* C31: once restoredBy has been set on a record by a restore, no later
\* accepted operation clears it: edits, soft deletes and restores made
\* without an actor (instance restore or bulkRestore) leave the stored
\* restoredBy in place.
C31_RestoredByRetained ==
    (res.op \in Mutators /\ res.err = "none") =>
        \A id \in Kept :
            res.store0[id].restoredBy # NullA => store[id].restoredBy # NullA

\* ============================================== claims: save and version
\* A save was accepted on an object of an existing record, live in memory
\* and in storage, holding the version that is stored.
SavedLive ==
    /\ Called("save")
    /\ ~Obj0.isNew
    /\ Obj0.id \in LiveIds(res.store0)
    /\ ~Truthy(Obj0.f["deletedAt"])
    /\ res.store0[Obj0.id].version = Obj0.f["version"]

\* C32: a save of an existing live record in which only audit fields were
\* modified (only updatedBy, say) leaves version unchanged and still sets
\* updatedAt to now; a save that modifies at least one non-audit field
\* raises version by exactly 1; on the object and in storage alike.
C32_SaveBumpsOnNonAudit ==
    SavedLive =>
        LET bump == IF Dirty(Obj0) THEN 1 ELSE 0 IN
        /\ Obj.f["version"] = Obj0.f["version"] + bump
        /\ store[Obj.id].version = res.store0[Obj.id].version + bump
        /\ Obj.f["updatedAt"] = now
        /\ store[Obj.id].updatedAt = now

\* A save with only updatedBy modified was accepted at a later time than
\* the record's last write: version as it was, updatedAt moved to now.
C32_Witness ==
    /\ SavedLive
    /\ Obj0.mod = {"updatedBy"}
    /\ store[Obj.id].version = res.store0[Obj.id].version
    /\ store[Obj.id].updatedBy = Obj0.f["updatedBy"]
    /\ res.store0[Obj.id].updatedAt < now
    /\ store[Obj.id].updatedAt = now

\* ================================================== claims: deleteOne
\* C33: a default deleteOne whose filter matches several live records
\* soft-deletes exactly one of them and leaves the other matching records
\* live.
C33_DeleteOneStampsOne ==
    (HookDone /\ res.op = "deleteOne" /\ res.err = "none"
        /\ Cardinality(MatchedLive0) > 1) =>
        Cardinality(MatchedLive0 \cap DeletedIds(store)) = 1

\* ===================================== claims: restore and bulkRestore
\* The fields on which the two restores are compared.
RestoreFields == {"deletedAt", "deletedBy", "restoredBy", "updatedBy", "version"}

\* C34: instance restore(actor) and bulkRestore(filter, actor) are
\* equivalent on a single record: when an instance restore is accepted on an
\* object without pending changes that holds what is stored, a bulkRestore
\* of that record issued instead, with the same actor argument (none
\* included), would store the same deletedAt, deletedBy, restoredBy,
\* updatedBy and version.
C34_RestoreEquivalence ==
    (Called("restore") /\ Obj0.mod = {} /\ Obj0.id \in DOMAIN res.store0
        /\ res.store0[Obj0.id] = Obj0.f) =>
        \A r \in UpdateResults("updateMany", BulkRestoreFilter(ById(Obj0.id)),
                                RestoreUpdate(res.arg, now), res.store0, now) :
            /\ r.err = "none"
            /\ \A k \in RestoreFields : r.st[Obj0.id][k] = store[Obj0.id][k]

\* ============================================ claims: concurrent bulk
\* C35: under any interleaving of concurrent bulkSoftDelete (or static
\* softDelete) calls with overlapping filters, each live record that matches
\* is soft-deleted by exactly one of the calls: no record is updated by both,
\* a record a call updated carries that call's actor and time and a version
\* exactly 1 above the one it had, and once a call has finished every live
\* record that matched it when it was issued is stored deleted.
C35_StampedOnce ==
    /\ inflight["k1"].hit \cap inflight["k2"].hit = {}
    /\ \A k \in Calls : \A id \in inflight[k].hit :
          /\ store[id].deletedBy = inflight[k].actor
          /\ store[id].deletedAt = inflight[k].t
          /\ store[id].version = inflight[k].store0[id].version + 1
    /\ \A k \in Calls : Finished(k) =>
          \A id \in Matching(inflight[k].store0, inflight[k].flt) \cap LiveIds(inflight[k].store0) :
             store[id].deletedAt # NullT

\* Both calls have finished; a record that matched both when each was
\* issued was updated by the first, at an earlier time than the second was
\* issued, and the second updated another record.
C35_Witness ==
    /\ Finished("k1") /\ Finished("k2")
    /\ inflight["k2"].hit # {}
    /\ inflight["k1"].t < inflight["k2"].t
    /\ \E id \in inflight["k1"].hit :
          id \in Matching(inflight["k2"].store0, inflight["k2"].flt)

\* ============================================ claims: connectToMongoDb
\* What holds of the initial call at every moment: it has made no more than
\* RETRY_CAP attempts; until the first successful connection retryCount
\* counts the failed attempts and nothing else ('disconnected' events
\* consume no retry), and the process has exited exactly when the
\* RETRY_CAP-th attempt in a row has failed; the call resolves on its first
\* successful attempt, with retryCount 0.
MongoInitialSafe ==
    /\ mongo.attempts <= mongo.cap
    /\ mongo.firstConnection =>
          /\ mongo.retryCount = mongo.failed
          /\ mongo.failed = IF mongo.pc = "connecting" THEN mongo.attempts - 1
                            ELSE mongo.attempts
          /\ mongo.pc = "exited" <=> (mongo.pc # "idle" /\ mongo.failed = mongo.cap)
          /\ mongo.pc # "resolved"
    /\ ~mongo.firstConnection =>
          /\ mongo.attempts = mongo.failed + 1
          /\ mongo.pc = "resolved" \/ mongo.events > 0
          /\ mongo.events = 0 => mongo.retryCount = 0

MongoSettled == mongo.pc \in {"resolved", "exited"}

\* C36: the initial connectToMongoDb always terminates, resolved after its
\* first successful attempt with retryCount reset to 0 or exiting the process
\* on the RETRY_CAP-th consecutive failed attempt; it never makes more than
\* RETRY_CAP attempts, and 'disconnected' events received before the first
\* successful connection consume no retries.
C36_InitialConnectTerminates == []MongoInitialSafe /\ <>MongoSettled

\* The initial call is on its last permitted attempt, every earlier one
\* having failed, and the 'disconnected' events delivered meanwhile have
\* consumed no retry.
C36_Witness ==
    /\ mongo.pc = "connecting"
    /\ mongo.firstConnection
    /\ mongo.cap > 1
    /\ mongo.attempts = mongo.cap
    /\ mongo.events = MaxEvents
    /\ mongo.retryCount = mongo.cap - 1

\* ============================================== claims: connectToKafka
\* C37: once the first call to connectToKafka has completed successfully,
\* the disconnect handlers are attached to the producer and the consumer
\* that connectWithRetry connected, and a disconnect event of either leads
\* to a reconnect attempt for that client, counted against RETRY_CAP.
C37_DisconnectReconnects ==
    (kafka.calls = 1 /\ ~kafka.firstConnection) =>
        /\ kafka.producer \in kafka.onProducer
        /\ kafka.consumer \in kafka.onConsumer
        /\ (kafka.last.client = "producer" /\ kafka.last.obj = kafka.producer
                /\ ~kafka.last.first) => kafka.last.handled
        /\ (kafka.last.client = "consumer" /\ kafka.last.obj = kafka.consumer
                /\ ~kafka.last.first) => kafka.last.handled
====
